---- MODULE Spec2Model ----
(***************************************************************************)
(* whois-ips: the streaming WHOIS XML parser (src/src/xmlparser.rs), the   *)
(* HTTP retrieval client (src/src/httpclient.rs) and the query client and  *)
(* front end (src/src/main.rs: WhoisCompanyIpsClient::get, main).          *)
(*                                                                         *)
(* The XML reader (xml-rs EventReader) is the environment: it yields, one  *)
(* event per loop iteration, any event that a reader over some byte stream *)
(* can yield at that point (tags balanced, one root element, text only     *)
(* inside an element, characters coalesced, an error event is the last     *)
(* event).  A run is either the front end (caller = "main"), whose reader  *)
(* yields an arbitrary such stream, or a direct caller of parse_content    *)
(* (caller = "test", as the unit tests do), which parses a fixed document  *)
(* doc and then parses the same bytes again.                               *)
(***************************************************************************)
EXTENDS Integers, Sequences, FiniteSets, TLC

VARIABLES caller, pc, doc, runs, first_result,
          reader, nread, netrefs, limit_text,
          ip_results, is_inside_limit, result,
          http_calls, wire, http_response, response, stdout, printed

vars == <<caller, pc, doc, runs, first_result,
          reader, nread, netrefs, limit_text,
          ip_results, is_inside_limit, result,
          http_calls, wire, http_response, response, stdout, printed>>

----------------------------------------------------------------------------
(* Bounds *)

\* events one reader yields at most
MaxEvents == 7
\* nesting depth of elements
MaxDepth == 3
\* netRef elements in one stream
MaxNetRefs == 2
\* length of the fixed document of a direct caller
MaxDocLen == 4
\* parses a direct caller makes of the same document
MaxRuns == 2

----------------------------------------------------------------------------
(* Values *)

None == [none |-> TRUE]

Some(v) == [none |-> FALSE, some |-> v]

\* Ipv4Addr: four octets
V4(a, b, c, d) == [family |-> "V4", octets |-> <<a, b, c, d>>]

\* Ipv6Addr: eight 16-bit segments
V6(segments) == [family |-> "V6", octets |-> segments]

\* std::net::IpAddr::from_str on the address tokens of the model: the typed
\* address, or the AddrParseError diagnostic.  Compressed and uncompressed
\* IPv6 spellings of one address decode to the same value.
IpAddr_from_str(ip_str) ==
    CASE ip_str = "162.125.0.0"      -> [ok |-> TRUE, ip |-> V4(162, 125, 0, 0)]
      [] ip_str = "162.125.255.255"  -> [ok |-> TRUE, ip |-> V4(162, 125, 255, 255)]
      [] ip_str = "::1"              -> [ok |-> TRUE, ip |-> V6(<<0, 0, 0, 0, 0, 0, 0, 1>>)]
      [] ip_str = "0:0:0:0:0:0:0:1"  -> [ok |-> TRUE, ip |-> V6(<<0, 0, 0, 0, 0, 0, 0, 1>>)]
      [] OTHER                       -> [ok |-> FALSE, e |-> "invalid IP address syntax"]

IpAddrError(e, ip_str) ==
    [kind |-> "IpAddrError", text |-> "Failed to parse IP address", e |-> e, token |-> ip_str]

parse_ip_lenient(ip_str) ==
    LET r == IpAddr_from_str(ip_str)
    IN  [ok |-> TRUE, ip |-> IF r.ok THEN r.ip ELSE V4(0, 0, 0, 0)]

parse_ip(ip_str) ==
    LET r == IpAddr_from_str(ip_str)
    IN  IF r.ok THEN [ok |-> TRUE, ip |-> r.ip]
                ELSE [ok |-> FALSE, err |-> IpAddrError(r.e, ip_str)]

Attr(n, v) == [local_name |-> n, value |-> v]

RECURSIVE netref_loop_last_error(_, _, _)
netref_loop_last_error(attributes, i, acc) ==
    IF i > Len(attributes) THEN acc
    ELSE LET a == attributes[i]
         IN  CASE a.local_name = "name" ->
                    netref_loop_last_error(attributes, i + 1, [acc EXCEPT !.range_name = Some(a.value)])
               [] a.local_name = "startAddress" ->
                    LET r == parse_ip(a.value)
                    IN  IF r.ok
                        THEN netref_loop_last_error(attributes, i + 1, [acc EXCEPT !.start_ip = Some(r.ip)])
                        ELSE netref_loop_last_error(attributes, i + 1, [acc EXCEPT !.err = Some(r.err)])
               [] a.local_name = "endAddress" ->
                    LET r == parse_ip(a.value)
                    IN  IF r.ok
                        THEN netref_loop_last_error(attributes, i + 1, [acc EXCEPT !.end_ip = Some(r.ip)])
                        ELSE netref_loop_last_error(attributes, i + 1, [acc EXCEPT !.err = Some(r.err)])
               [] OTHER -> netref_loop_last_error(attributes, i + 1, acc)

\* the for loop of parse_content_netref from attribute i on; acc holds
\* range_name, start_ip, end_ip and the error of the first `?` that returned
RECURSIVE netref_loop(_, _, _)
netref_loop(attributes, i, acc) ==
    IF i > Len(attributes) THEN acc
    ELSE LET a == attributes[i]
         IN  CASE a.local_name = "name" ->
                    netref_loop(attributes, i + 1, [acc EXCEPT !.range_name = Some(a.value)])
               [] a.local_name = "startAddress" ->
                    LET r == parse_ip(a.value)
                    IN  IF r.ok
                        THEN netref_loop(attributes, i + 1, [acc EXCEPT !.start_ip = Some(r.ip)])
                        ELSE [acc EXCEPT !.err = Some(r.err)]
               [] a.local_name = "endAddress" ->
                    LET r == parse_ip(a.value)
                    IN  IF r.ok
                        THEN netref_loop(attributes, i + 1, [acc EXCEPT !.end_ip = Some(r.ip)])
                        ELSE [acc EXCEPT !.err = Some(r.err)]
               [] OTHER -> netref_loop(attributes, i + 1, acc)

WhoisIpResult(name, start_ip, end_ip) ==
    [name |-> name, start_ip |-> start_ip, end_ip |-> end_ip]

parse_content_netref_or_default(attributes) ==
    LET acc == netref_loop(attributes, 1,
                   [range_name |-> None, start_ip |-> None, end_ip |-> None, err |-> None])
    IN  IF ~acc.err.none
        THEN [kind |-> "Err", err |-> acc.err.some]
        ELSE IF acc.range_name.none \/ acc.start_ip.none
        THEN [kind |-> "Panic"]
        ELSE [kind |-> "Ok",
              value |-> WhoisIpResult(acc.range_name.some, acc.start_ip.some,
                                      IF acc.end_ip.none THEN acc.start_ip.some ELSE acc.end_ip.some)]

parse_content_netref_same_family(attributes) ==
    LET acc == netref_loop(attributes, 1,
                   [range_name |-> None, start_ip |-> None, end_ip |-> None, err |-> None])
    IN  IF ~acc.err.none
        THEN [kind |-> "Err", err |-> acc.err.some]
        ELSE IF acc.range_name.none \/ acc.start_ip.none \/ acc.end_ip.none
        THEN [kind |-> "Panic"]
        ELSE IF acc.start_ip.some.family # acc.end_ip.some.family
        THEN [kind |-> "Err", err |-> IpAddrError("address families differ", "")]
        ELSE [kind |-> "Ok",
              value |-> WhoisIpResult(acc.range_name.some, acc.start_ip.some, acc.end_ip.some)]

\* Ok(WhoisIpResult), Err(IpAddrError) or the panic of Option::unwrap on None
parse_content_netref(attributes) ==
    LET acc == netref_loop(attributes, 1,
                   [range_name |-> None, start_ip |-> None, end_ip |-> None, err |-> None])
    IN  IF ~acc.err.none
        THEN [kind |-> "Err", err |-> acc.err.some]
        ELSE IF acc.range_name.none \/ acc.start_ip.none \/ acc.end_ip.none
        THEN [kind |-> "Panic"]
        ELSE [kind |-> "Ok",
              value |-> WhoisIpResult(acc.range_name.some, acc.start_ip.some, acc.end_ip.some)]

----------------------------------------------------------------------------
(* The XML reader: events and the streams a reader can yield *)

StartElement(name, attributes) ==
    [kind |-> "StartElement", name |-> name, attributes |-> attributes, s |-> ""]

EndElement(name) == [kind |-> "EndElement", name |-> name, attributes |-> <<>>, s |-> ""]

Characters(s) == [kind |-> "Characters", name |-> "", attributes |-> <<>>, s |-> s]

CData(s) == [kind |-> "CData", name |-> "", attributes |-> <<>>, s |-> s]

\* the event kinds parse_content leaves to its `_ => {}` arm
Ignored(kind) == [kind |-> kind, name |-> "", attributes |-> <<>>, s |-> ""]

XmlErr(e) == [kind |-> "Error", name |-> "", attributes |-> <<>>, s |-> e]

NoEvent == [kind |-> "None", name |-> "", attributes |-> <<>>, s |-> ""]

\* netRef of the test fixtures (xmlparser.rs:165)
AttrsFixture ==
    <<Attr("endAddress", "162.125.255.255"), Attr("startAddress", "162.125.0.0"),
      Attr("handle", "NET-162-125-0-0-1"), Attr("name", "DROPB")>>

AttrsV6 ==
    <<Attr("name", "LOOP6"), Attr("startAddress", "::1"), Attr("endAddress", "0:0:0:0:0:0:0:1")>>

AttrsMixed ==
    <<Attr("name", "MIXED"), Attr("startAddress", "162.125.0.0"), Attr("endAddress", "::1")>>

AttrsMixedRev ==
    <<Attr("endAddress", "162.125.255.255"), Attr("name", "MIXED"), Attr("startAddress", "::1")>>

\* netRef of parse_content_invalid_ip (xmlparser.rs:217)
AttrsBadStart ==
    <<Attr("endAddress", "162.125.255.255"), Attr("startAddress", "dropbox.com"),
      Attr("handle", "NET-162-125-0-0-1"), Attr("name", "DROPB")>>

AttrsBadEnd ==
    <<Attr("name", "DROPB"), Attr("startAddress", "162.125.0.0"), Attr("endAddress", "")>>

AttrsBadBoth == <<Attr("endAddress", "1.2.3"), Attr("startAddress", "dropbox.com")>>

AttrsNoName == <<Attr("startAddress", "162.125.0.0"), Attr("endAddress", "162.125.255.255")>>

AttrsNoStart == <<Attr("name", "DROPB"), Attr("endAddress", "162.125.255.255")>>

AttrsNoEnd == <<Attr("name", "DROPB"), Attr("startAddress", "162.125.0.0")>>

AttrsNone == <<Attr("handle", "NET-162-125-0-0-1")>>

\* what the reader of a front-end run can carry
FeedAlphabet ==
    [attrs   |-> {AttrsFixture, AttrsV6, AttrsMixed, AttrsMixedRev, AttrsBadStart, AttrsBadEnd, AttrsBadBoth,
                  AttrsNoName, AttrsNoStart, AttrsNoEnd, AttrsNone},
     names   |-> {"nets", "limitExceeded"},
     texts   |-> {"false", "true", "False", " false ", "https://whois.arin.net/rest/net/NET-162-125-0-0-1"},
     ignored |-> {"Whitespace", "ProcessingInstruction"},
     errors  |-> {"Unexpected end of stream", "Unexpected token"}]

\* what the fixed documents of a direct caller carry
DocAlphabet ==
    [attrs   |-> {AttrsFixture, AttrsBadStart},
     names   |-> {"nets", "limitExceeded"},
     texts   |-> {"false", "true"},
     ignored |-> {"Whitespace"},
     errors  |-> {"Unexpected end of stream"}]

Alphabet(c) == IF c = "main" THEN FeedAlphabet ELSE DocAlphabet

Range(f) == {f[i] : i \in DOMAIN f}

\* reader position: the open elements, whether the root element is closed, the last event
ReaderNew == [open |-> <<>>, root_done |-> FALSE, last |-> NoEvent]

ReaderNext(rs, e) ==
    CASE e.kind = "StartElement" ->
            [rs EXCEPT !.open = Append(rs.open, e.name), !.last = e]
      [] e.kind = "EndElement" ->
            [rs EXCEPT !.open = SubSeq(rs.open, 1, Len(rs.open) - 1),
                       !.root_done = (Len(rs.open) = 1), !.last = e]
      [] OTHER -> [rs EXCEPT !.last = e]

\* the events a reader at rs can yield next, k netRef elements having been read
Producible(rs, k, A) ==
    IF rs.last.kind = "Error" THEN {}
    ELSE LET canStart == ~rs.root_done /\ Len(rs.open) < MaxDepth
             inside   == rs.open # <<>>
         IN  {StartElement("netRef", a) : a \in IF canStart /\ k < MaxNetRefs THEN A.attrs ELSE {}}
             \cup {StartElement(n, <<>>) : n \in IF canStart THEN A.names ELSE {}}
             \cup {EndElement(rs.open[Len(rs.open)]) : x \in IF inside THEN {1} ELSE {}}
             \cup {Characters(t) : t \in IF inside /\ rs.last.kind # "Characters" THEN A.texts ELSE {}}
             \cup {CData(t) : t \in IF inside THEN {"false"} ELSE {}}
             \cup {Ignored(g) : g \in A.ignored}
             \cup {XmlErr(m) : m \in A.errors}

\* the iterator ends: the document is complete, or the last event was an error
AtEnd(rs) == rs.root_done \/ rs.last.kind = "Error"

RECURSIVE ReaderAfter(_)
ReaderAfter(p) ==
    IF p = <<>> THEN ReaderNew
    ELSE ReaderNext(ReaderAfter(SubSeq(p, 1, Len(p) - 1)), p[Len(p)])

IsNetRef(e) == e.kind = "StartElement" /\ e.name = "netRef"

NetRefsOf(p) == SelectSeq(p, IsNetRef)

RECURSIVE Streams(_)
Streams(n) ==
    IF n = 0 THEN {<<>>}
    ELSE {Append(p, e) : <<p, e>> \in
             UNION {{<<q, f>> : f \in Producible(ReaderAfter(q), Len(NetRefsOf(q)), DocAlphabet)}
                    : q \in Streams(n - 1)}}

\* the documents a direct caller parses: every stream of at most MaxDocLen events
Docs == {p \in UNION {Streams(n) : n \in 1..MaxDocLen} : AtEnd(ReaderAfter(p))}

----------------------------------------------------------------------------
(* Results *)

NoResult == [kind |-> "None", ips |-> <<>>, err |-> [kind |-> "None"]]

\* Ok(WhoisResult::new(ip_results))
OkResult(ips) == [kind |-> "Ok", ips |-> ips, err |-> [kind |-> "None"]]

\* Err(e): an error result carries no ranges
ErrResult(e) == [kind |-> "Err", ips |-> <<>>, err |-> e]

XmlErrorOpaque(e) == [kind |-> "XmlError", text |-> "Fail"]

\* ParseError::XmlError(e.to_string())
XmlError(e) == [kind |-> "XmlError", text |-> e]

LimitExceeded == [kind |-> "LimitExceeded"]

\* hyper's send(): no response (transport failure) or a response with a status
WireOutcomes ==
    {[sent |-> FALSE, status |-> 0, e |-> m] : m \in {"connection refused", "timed out"}}
    \cup {[sent |-> TRUE, status |-> st, e |-> ""] : st \in {200, 204, 206, 301, 404, 500}}

NoWire == [sent |-> FALSE, status |-> 0, e |-> ""]

StatusOk == 200

\* StdWhoisHttpClient::get_content on the outcome w of send()
get_content(w) ==
    IF ~w.sent
    THEN [kind |-> "Err", err |-> [kind |-> "Unknown", text |-> w.e, status |-> 0]]
    ELSE IF w.status # StatusOk
    THEN [kind |-> "Err", err |-> [kind |-> "HttpError", text |-> "HTTP Error: ", status |-> w.status]]
    ELSE [kind |-> "Ok", err |-> [kind |-> "None"]]

NoHttp == [kind |-> "None", err |-> [kind |-> "None"]]

\* get: `if http_response.is_err() { return Err("Fail".to_string()) }`
get_http_failed(r) == [kind |-> "Err", ips |-> <<>>, err |-> "Fail"]

\* get: `if parsed_response.is_err() { return Err("Fail".to_string()) }`
get_parse_failed(r) == [kind |-> "Err", ips |-> <<>>, err |-> "Fail"]

\* get: Ok(parsed_response.unwrap())
get_ok(r) == [kind |-> "Ok", ips |-> r.ips, err |-> ""]

NoResponse == [kind |-> "None", ips |-> <<>>, err |-> ""]

main_unwrap_or_partial(r) ==
    IF r.kind = "Ok" THEN [panic |-> FALSE, ips |-> r.ips] ELSE [panic |-> FALSE, ips |-> ip_results]

\* main: response.unwrap().ips, or the panic of unwrap on Err
main_unwrap(r) ==
    IF r.kind = "Ok" THEN [panic |-> FALSE, ips |-> r.ips] ELSE [panic |-> TRUE, ips |-> <<>>]

Banner == [kind |-> "banner"]

DebugLine(r) == [kind |-> "debug", response |-> r]

\* println!("{:?}", IpAddrRange::from_range(ip.start_ip, ip.end_ip))
RangeLine(ip) == [kind |-> "range", start_ip |-> ip.start_ip, end_ip |-> ip.end_ip]

----------------------------------------------------------------------------
(* Initial state *)

Init ==
    /\ caller \in {"main", "test"}
    /\ pc = IF caller = "main" THEN "main" ELSE "call_parse"
    /\ doc \in IF caller = "main" THEN {<<>>} ELSE Docs
    /\ runs = 0
    /\ first_result = NoResult
    /\ reader = ReaderNew
    /\ nread = 0
    /\ netrefs = <<>>
    /\ limit_text = {}
    /\ ip_results = <<>>
    /\ is_inside_limit = FALSE
    /\ result = NoResult
    /\ http_calls = 0
    /\ wire = NoWire
    /\ http_response = NoHttp
    /\ response = NoResponse
    /\ stdout = <<>>
    /\ printed = 0

FrontEndVars == <<http_calls, wire, http_response, response, stdout, printed>>

ParserVars == <<reader, nread, netrefs, limit_text, ip_results, is_inside_limit, result>>

----------------------------------------------------------------------------
(* parse_content *)

StaleIpResults == ip_results

\* let mut ip_results = Vec::new()
NewIpResults == <<>>

\* parse_content up to its loop: a new result vector, a new reader over the
\* bytes, is_inside_limit = false.  The front end calls it from get on the
\* body of an Ok retrieval; a direct caller calls it on doc.
parse_begin ==
    /\ \/ caller = "main" /\ pc = "get_http" /\ http_response.kind = "Ok"
       \/ caller = "test" /\ pc = "call_parse"
    /\ pc' = "parse"
    /\ runs' = runs + 1
    /\ ip_results' = NewIpResults
    /\ is_inside_limit' = FALSE
    /\ reader' = ReaderNew
    /\ nread' = 0
    /\ netrefs' = <<>>
    /\ limit_text' = {}
    /\ result' = NoResult
    /\ UNCHANGED <<caller, doc, first_result>>
    /\ UNCHANGED FrontEndVars

InsideLimitElement(rs) == "limitExceeded" \in Range(rs.open)

TextClass(s) == IF s = "false" THEN "false" ELSE "other"

FeedAgain(e) ==
    /\ pc = "parse"
    /\ nread < MaxEvents
    /\ e \in Producible(reader, Len(netrefs), Alphabet(caller))
    /\ caller = "test" => nread < Len(doc) /\ e = doc[nread + 1]
    /\ reader' = ReaderNext(reader, e)
    /\ nread' = nread
    /\ netrefs' = IF IsNetRef(e) THEN Append(netrefs, e.attributes) ELSE netrefs
    /\ limit_text' = limit_text
    /\ UNCHANGED <<caller, doc, runs>>
    /\ UNCHANGED FrontEndVars

\* `for elm in parser`: the iterator yields e
Feed(e) ==
    /\ pc = "parse"
    /\ nread < MaxEvents
    /\ e \in Producible(reader, Len(netrefs), Alphabet(caller))
    /\ caller = "test" => nread < Len(doc) /\ e = doc[nread + 1]
    /\ reader' = ReaderNext(reader, e)
    /\ nread' = nread + 1
    /\ netrefs' = IF IsNetRef(e) THEN Append(netrefs, e.attributes) ELSE netrefs
    /\ limit_text' = IF e.kind = "Characters" /\ InsideLimitElement(reader)
                     THEN limit_text \cup {TextClass(e.s)}
                     ELSE limit_text
    /\ UNCHANGED <<caller, doc, runs>>
    /\ UNCHANGED FrontEndVars

\* parse_content returns r to its caller
Return(r) ==
    /\ result' = r
    /\ pc' = IF caller = "main" THEN "get_parsed" ELSE "test_done"
    /\ first_result' = IF runs = 1 THEN r ELSE first_result

Continue == pc' = pc /\ UNCHANGED <<result, first_result>>

Panic == pc' = "panic" /\ UNCHANGED <<result, first_result>>

PushFront(v, x) == <<x>> \o v

\* ip_results.push(ip_result)
Push(v, x) == Append(v, x)

start_netRef ==
    \E e \in Producible(reader, Len(netrefs), Alphabet(caller)) :
        /\ IsNetRef(e)
        /\ Feed(e)
        /\ LET r == parse_content_netref(e.attributes)
           IN  CASE r.kind = "Ok"  -> ip_results' = Push(ip_results, r.value) /\ Continue
                 [] r.kind = "Err" -> ip_results' = ip_results /\ Return(ErrResult(r.err))
                 [] OTHER          -> ip_results' = ip_results /\ Panic
        /\ UNCHANGED is_inside_limit

start_limitExceeded ==
    \E e \in Producible(reader, Len(netrefs), Alphabet(caller)) :
        /\ e.kind = "StartElement" /\ e.name = "limitExceeded"
        /\ Feed(e)
        /\ is_inside_limit' = TRUE
        /\ Continue
        /\ UNCHANGED ip_results

start_other_reset ==
    \E e \in Producible(reader, Len(netrefs), Alphabet(caller)) :
        /\ e.kind = "StartElement" /\ e.name \notin {"netRef", "limitExceeded"}
        /\ Feed(e)
        /\ Continue
        /\ ip_results' = <<>>
        /\ UNCHANGED is_inside_limit

start_other ==
    \E e \in Producible(reader, Len(netrefs), Alphabet(caller)) :
        /\ e.kind = "StartElement" /\ e.name \notin {"netRef", "limitExceeded"}
        /\ Feed(e)
        /\ Continue
        /\ UNCHANGED <<ip_results, is_inside_limit>>

check_limit_nocase(inside, s) ==
    IF inside /\ s \notin {"false", "False", " false "} THEN Some(LimitExceeded) ELSE None

check_limit_anywhere(inside, s) ==
    IF s # "false" THEN Some(LimitExceeded) ELSE None

\* the Characters arm: Some(error) to return, or None to go on
check_limit(inside, s) ==
    IF inside /\ s # "false" THEN Some(LimitExceeded) ELSE None

characters ==
    \E e \in Producible(reader, Len(netrefs), Alphabet(caller)) :
        /\ e.kind = "Characters"
        /\ Feed(e)
        /\ LET c == check_limit(is_inside_limit, e.s)
           IN  IF c.none THEN Continue ELSE Return(ErrResult(c.some))
        /\ UNCHANGED <<ip_results, is_inside_limit>>

\* the EndElement arm: is_inside_limit after the close of element name
end_limit(inside, name) == FALSE

end_element ==
    \E e \in Producible(reader, Len(netrefs), Alphabet(caller)) :
        /\ e.kind = "EndElement"
        /\ Feed(e)
        /\ is_inside_limit' = end_limit(is_inside_limit, e.name)
        /\ Continue
        /\ UNCHANGED ip_results

cdata_dropped ==
    \E e \in Producible(reader, Len(netrefs), Alphabet(caller)) :
        /\ e.kind = "CData"
        /\ Feed(e)
        /\ Continue
        /\ UNCHANGED <<ip_results, is_inside_limit>>

cdata ==
    \E e \in Producible(reader, Len(netrefs), Alphabet(caller)) :
        /\ e.kind = "CData"
        /\ Feed(e)
        /\ Panic
        /\ UNCHANGED <<ip_results, is_inside_limit>>

xml_error ==
    \E e \in Producible(reader, Len(netrefs), Alphabet(caller)) :
        /\ e.kind = "Error"
        /\ Feed(e)
        /\ Return(ErrResult(XmlError(e.s)))
        /\ UNCHANGED <<ip_results, is_inside_limit>>

ignored_event ==
    \E e \in Producible(reader, Len(netrefs), Alphabet(caller)) :
        /\ e.kind \in FeedAlphabet.ignored
        /\ Feed(e)
        /\ Continue
        /\ UNCHANGED <<ip_results, is_inside_limit>>

\* the iterator is exhausted: Ok(WhoisResult::new(ip_results))
end_of_stream ==
    /\ pc = "parse"
    /\ reader.root_done
    /\ caller = "test" => nread = Len(doc)
    /\ Return(OkResult(ip_results))
    /\ UNCHANGED <<caller, doc, runs, reader, nread, netrefs, limit_text,
                   ip_results, is_inside_limit>>
    /\ UNCHANGED FrontEndVars

\* a direct caller parses the same bytes again
test_again ==
    /\ caller = "test"
    /\ pc = "test_done"
    /\ runs < MaxRuns
    /\ pc' = "call_parse"
    /\ UNCHANGED <<caller, doc, runs, first_result>>
    /\ UNCHANGED ParserVars
    /\ UNCHANGED FrontEndVars

----------------------------------------------------------------------------
(* WhoisCompanyIpsClient::get and main *)

FrameFrontEnd == UNCHANGED <<caller, doc, runs, first_result>> /\ UNCHANGED ParserVars

\* get: let http_response = self.client.get_content(&url)
get_get_content ==
    /\ pc = "main"
    /\ \E w \in WireOutcomes :
          /\ wire' = w
          /\ http_calls' = http_calls + 1
          /\ http_response' = get_content(w)
    /\ pc' = "get_http"
    /\ UNCHANGED <<response, stdout, printed>>
    /\ FrameFrontEnd

get_http_err_retry ==
    /\ pc = "get_http"
    /\ http_response.kind = "Err"
    /\ pc' = "main"
    /\ UNCHANGED FrontEndVars
    /\ FrameFrontEnd

get_http_err ==
    /\ pc = "get_http"
    /\ http_response.kind = "Err"
    /\ response' = get_http_failed(http_response)
    /\ pc' = "main_print"
    /\ UNCHANGED <<http_calls, wire, http_response, stdout, printed>>
    /\ FrameFrontEnd

get_return ==
    /\ pc = "get_parsed"
    /\ response' = IF result.kind = "Err" THEN get_parse_failed(result) ELSE get_ok(result)
    /\ pc' = "main_print"
    /\ UNCHANGED <<http_calls, wire, http_response, stdout, printed>>
    /\ FrameFrontEnd

\* main: the three println! before the loop
main_header ==
    /\ pc = "main_print"
    /\ stdout' = stdout \o <<Banner, DebugLine(response), Banner>>
    /\ pc' = "main_unwrap"
    /\ UNCHANGED <<http_calls, wire, http_response, response, printed>>
    /\ FrameFrontEnd

main_unwrap_err ==
    /\ pc = "main_unwrap"
    /\ main_unwrap(response).panic
    /\ pc' = "panic"
    /\ UNCHANGED FrontEndVars
    /\ FrameFrontEnd

\* one iteration of `for ip in response.unwrap().ips`
main_range ==
    /\ pc = "main_unwrap"
    /\ ~main_unwrap(response).panic
    /\ printed < Len(main_unwrap(response).ips)
    /\ stdout' = Append(stdout, RangeLine(main_unwrap(response).ips[printed + 1]))
    /\ printed' = printed + 1
    /\ pc' = pc
    /\ UNCHANGED <<http_calls, wire, http_response, response>>
    /\ FrameFrontEnd

main_footer ==
    /\ pc = "main_unwrap"
    /\ ~main_unwrap(response).panic
    /\ printed = Len(main_unwrap(response).ips)
    /\ stdout' = Append(stdout, Banner)
    /\ pc' = "exit"
    /\ UNCHANGED <<http_calls, wire, http_response, response, printed>>
    /\ FrameFrontEnd

----------------------------------------------------------------------------

Next ==
    \/ parse_begin
    \/ start_netRef
    \/ start_limitExceeded
    \/ start_other
    \/ characters
    \/ end_element
    \/ cdata
    \/ xml_error
    \/ ignored_event
    \/ end_of_stream
    \/ test_again
    \/ get_get_content
    \/ get_http_err
    \/ get_return
    \/ main_header
    \/ main_unwrap_err
    \/ main_range
    \/ main_footer

Spec == Init /\ [][Next]_vars

\* a direct caller alone: parse_content on every finite stream of Docs.  The
\* caller is one sequential thread that runs until it returns or panics.
InitParse == Init /\ caller = "test"

NextParse ==
    \/ parse_begin
    \/ start_netRef
    \/ start_limitExceeded
    \/ start_other
    \/ characters
    \/ end_element
    \/ cdata
    \/ xml_error
    \/ ignored_event
    \/ end_of_stream
    \/ test_again

SpecParse == InitParse /\ [][NextParse]_vars /\ WF_vars(NextParse)

----------------------------------------------------------------------------
(* Properties *)

HasAttr(attributes, n) == \E i \in DOMAIN attributes : attributes[i].local_name = n

\* the value of the attribute called n
AttrValue(attributes, n) ==
    attributes[CHOOSE i \in DOMAIN attributes : attributes[i].local_name = n].value

Decodes(token) == IpAddr_from_str(token).ok

\* the address attributes of a netRef whose value does not decode
BadTokens(attributes) ==
    {attributes[i].value : i \in {j \in DOMAIN attributes :
        /\ attributes[j].local_name \in {"startAddress", "endAddress"}
        /\ ~Decodes(attributes[j].value)}}

ValidEndpoints(attributes) ==
    /\ HasAttr(attributes, "startAddress") /\ HasAttr(attributes, "endAddress")
    /\ BadTokens(attributes) = {}

WellFormedNetRef(attributes) == HasAttr(attributes, "name") /\ ValidEndpoints(attributes)

\* the range a netRef describes
RangeOf(attributes) ==
    [name     |-> AttrValue(attributes, "name"),
     start_ip |-> IpAddr_from_str(AttrValue(attributes, "startAddress")).ip,
     end_ip   |-> IpAddr_from_str(AttrValue(attributes, "endAddress")).ip]

\* parse_content was called and is no longer in its loop
ParseEnded == runs > 0 /\ pc \notin {"parse"}

\* the parse ended in a panic
ParsePanicked == ParseEnded /\ pc = "panic" /\ result.kind = "None"

\* the events read are those of a document of the feed: no reader error, no
\* CData, every netRef with a name and two decodable addresses
CleanStream ==
    /\ reader.last.kind \notin {"Error", "CData"}
    /\ \A i \in DOMAIN netrefs : WellFormedNetRef(netrefs[i])

\* C1: a parse of a well-formed document whose limitExceeded text is "false"
\* and whose N netRef elements all have a name and decodable addresses ends
\* with Ok and exactly N ranges, the i-th being the i-th netRef's name, start
\* and end.
C1_RangesInDocumentOrder ==
    (ParseEnded /\ CleanStream /\ limit_text = {"false"}) =>
        /\ result.kind = "Ok"
        /\ Len(result.ips) = Len(netrefs)
        /\ \A i \in DOMAIN netrefs : result.ips[i] = RangeOf(netrefs[i])

C1_Witness ==
    /\ ParseEnded /\ CleanStream /\ limit_text = {"false"}
    /\ Len(result.ips) = 2
    /\ result.ips[1] # result.ips[2]

\* C2: a parse of a document that has text other than "false" inside
\* limitExceeded ends with LimitExceeded, whatever netRef records it has.
C2_NonFalseLimitTextFails ==
    (ParseEnded /\ CleanStream /\ "other" \in limit_text) =>
        result.kind = "Err" /\ result.err.kind = "LimitExceeded"

\* C3: once a netRef with an undecodable startAddress or endAddress has been
\* read, the parse has ended with IpAddrError carrying an undecodable token of
\* that netRef, and no range was appended for it or returned.
C3_BadAddressAborts ==
    (runs > 0 /\ IsNetRef(reader.last) /\ BadTokens(reader.last.attributes) # {}) =>
        /\ pc # "parse"
        /\ result.kind = "Err"
        /\ result.err.kind = "IpAddrError"
        /\ result.err.token \in BadTokens(reader.last.attributes)
        /\ result.ips = <<>>
        /\ Len(ip_results) = Len(netrefs) - 1

C3_Witness ==
    /\ IsNetRef(reader.last) /\ BadTokens(reader.last.attributes) # {}
    /\ result.kind = "Err"
    /\ Len(netrefs) = 2

\* C4: once the reader has yielded an error event, the parse has ended with
\* XmlError carrying the reader's diagnostic, and the result has no ranges.
C4_XmlErrorAborts ==
    (runs > 0 /\ reader.last.kind = "Error") =>
        /\ pc # "parse"
        /\ result.kind = "Err"
        /\ result.err.kind = "XmlError"
        /\ result.err.text = reader.last.s
        /\ result.ips = <<>>

C4_Witness ==
    /\ reader.last.kind = "Error"
    /\ result.kind = "Err"
    /\ Len(ip_results) >= 1

\* C5: a netRef with two decodable addresses and no name attribute does not
\* fail the parse, and its range is appended.
C5_MissingNameIsNoError ==
    (runs > 0 /\ IsNetRef(reader.last) /\ ValidEndpoints(reader.last.attributes)
        /\ ~HasAttr(reader.last.attributes, "name")) =>
        /\ pc # "panic"
        /\ result.kind # "Err"
        /\ Len(ip_results) = Len(netrefs)

ParseErrors ==
    {LimitExceeded}
    \cup {XmlError(m) : m \in FeedAlphabet.errors}
    \cup {IpAddrError("invalid IP address syntax", t) : t \in {"dropbox.com", "", "1.2.3"}}

\* C6: what get returns after a failed retrieval is not what it returns after
\* a failed parse.
C6_FailureStagesDistinct ==
    (http_response.kind = "Err" /\ response.kind = "Err") =>
        response \notin {get_parse_failed(ErrResult(e)) : e \in ParseErrors}

\* C7: get_content returns the response for every 2xx status, HttpError with
\* the status for every other status, and Unknown when no response arrived.
C7_GetContentByStatus ==
    (http_response.kind # "None") =>
        /\ (wire.sent /\ wire.status \in 200..299) => http_response.kind = "Ok"
        /\ (wire.sent /\ wire.status \notin 200..299) =>
              /\ http_response.kind = "Err"
              /\ http_response.err.kind = "HttpError"
              /\ http_response.err.status = wire.status
        /\ ~wire.sent =>
              /\ http_response.kind = "Err"
              /\ http_response.err.kind = "Unknown"

RangeLines == {i \in DOMAIN stdout : stdout[i].kind = "range"}

\* the query failed: the retrieval failed, or the parse returned an error or panicked
QueryFailed == http_response.kind = "Err" \/ result.kind = "Err" \/ ParsePanicked

C9_SameResultTwice ==
    (caller = "test" /\ runs >= 2 /\ pc # "parse" /\ pc # "call_parse") =>
        /\ pc = "test_done"
        /\ result = first_result

C9_Witness ==
    /\ caller = "test" /\ runs >= 2 /\ pc = "test_done"
    /\ Len(result.ips) >= 1

\* C10: during a parse is_inside_limit is true exactly when the reader is
\* positioned inside a limitExceeded element.
C10_FlagTracksLimitElement ==
    pc = "parse" => (is_inside_limit <=> InsideLimitElement(reader))

\* C11: a text event read while is_inside_limit is true lets the parse go on
\* only if it is exactly "false"; any other text has ended the parse with
\* LimitExceeded, and a parse that ended with LimitExceeded read no event
\* after that text and appended no range with it.
C11_OnlyExactFalseContinues ==
    /\ (runs > 0 /\ reader.last.kind = "Characters" /\ is_inside_limit) =>
          IF reader.last.s = "false"
          THEN pc = "parse" /\ result = NoResult
          ELSE pc # "parse" /\ result = ErrResult(LimitExceeded)
    /\ (result.kind = "Err" /\ result.err.kind = "LimitExceeded") =>
          /\ reader.last.kind = "Characters" /\ reader.last.s # "false"
          /\ pc # "parse"
          /\ \A i \in DOMAIN ip_results : i <= Len(netrefs) /\ ip_results[i] = RangeOf(netrefs[i])

C11_Witness ==
    /\ reader.last.kind = "Characters" /\ reader.last.s = " false "
    /\ is_inside_limit
    /\ result = ErrResult(LimitExceeded)
    /\ Len(ip_results) >= 1

\* C12: every accumulated or returned range is that of one netRef read, in
\* which startAddress and endAddress were present and decoded; a netRef
\* without one of the two adds no range and the parse does not return Ok.
C12_NoPartialRange ==
    /\ Len(ip_results) <= Len(netrefs)
    /\ \A i \in DOMAIN ip_results :
          /\ ValidEndpoints(netrefs[i])
          /\ ip_results[i].start_ip = IpAddr_from_str(AttrValue(netrefs[i], "startAddress")).ip
          /\ ip_results[i].end_ip = IpAddr_from_str(AttrValue(netrefs[i], "endAddress")).ip
    /\ result.kind = "Ok" => result.ips = ip_results
    /\ (runs > 0 /\ IsNetRef(reader.last)
          /\ ~(HasAttr(reader.last.attributes, "startAddress")
               /\ HasAttr(reader.last.attributes, "endAddress"))) =>
          /\ Len(ip_results) = Len(netrefs) - 1
          /\ result.kind # "Ok"
          /\ pc # "parse"

C12_Witness ==
    /\ IsNetRef(reader.last)
    /\ HasAttr(reader.last.attributes, "startAddress")
    /\ ~HasAttr(reader.last.attributes, "endAddress")
    /\ pc = "panic"
    /\ Len(ip_results) = 1

\* C13: once a CData event has been read the parse has panicked: it returned
\* neither Ok nor an error, and it read nothing more.
C13_CDataPanics ==
    (runs > 0 /\ reader.last.kind = "CData") =>
        /\ pc = "panic"
        /\ result = NoResult
        /\ response = NoResponse

C13_Witness ==
    /\ reader.last.kind = "CData"
    /\ pc = "panic"
    /\ Len(ip_results) >= 1

\* C14: in a front-end run get_content is called once and no more; after a
\* failed retrieval parse_content is never called and get returns an error;
\* parse_content is called at most once, and only after an Ok retrieval.
C14_OneRetrievalOneParse ==
    caller = "main" =>
        /\ http_calls <= 1
        /\ pc # "main" => http_calls = 1
        /\ runs <= 1
        /\ runs = 1 => http_response.kind = "Ok"
        /\ http_response.kind = "Err" =>
              /\ runs = 0
              /\ pc # "get_http" => response.kind = "Err"

C14_Witness ==
    /\ caller = "main"
    /\ http_response.kind = "Err"
    /\ response.kind = "Err"
    /\ pc = "panic"
    /\ http_calls = 1 /\ runs = 0

\* C15: a parse of a finite stream reads its events in order, one per
\* iteration and none twice; it ends, at the end of the stream with Ok or at
\* the first event that raises an error, and reads nothing after it ended.
C15_OnePassTerminates ==
    /\ [](nread <= Len(doc))
    /\ [][pc = "parse" =>
            \/ nread' = nread + 1 /\ reader'.last = doc[nread + 1]
            \/ nread' = nread /\ nread = Len(doc) /\ pc' = "test_done" /\ result'.kind = "Ok"]_vars
    /\ [][(pc # "parse" /\ pc' # "parse") => (nread' = nread /\ reader' = reader)]_vars
    /\ []((pc = "test_done" /\ result.kind = "Err") => (nread >= 1 /\ reader.last = doc[nread]))
    /\ (pc = "parse") ~> (pc \in {"test_done", "panic"})

C15_Witness ==
    /\ pc = "test_done"
    /\ result.kind = "Err"
    /\ nread < Len(doc)

\* the families of the two addresses of a well-formed netRef differ
MixedFamilies(attributes) ==
    /\ WellFormedNetRef(attributes)
    /\ RangeOf(attributes).start_ip.family # RangeOf(attributes).end_ip.family

\* C16: a netRef whose start and end decode to addresses of different
\* families raises no error: the parse goes on, and the range with these two
\* endpoints is the last one appended.
C16_NoFamilyCheck ==
    (runs > 0 /\ IsNetRef(reader.last) /\ MixedFamilies(reader.last.attributes)) =>
        /\ pc = "parse"
        /\ result = NoResult
        /\ Len(ip_results) = Len(netrefs)
        /\ ip_results[Len(ip_results)] = RangeOf(reader.last.attributes)
        /\ ip_results[Len(ip_results)].start_ip.family # ip_results[Len(ip_results)].end_ip.family

C16_Witness ==
    /\ Len(ip_results) = 2
    /\ ip_results[1].start_ip.family = "V4" /\ ip_results[1].end_ip.family = "V6"
    /\ ip_results[2].start_ip.family = "V6" /\ ip_results[2].end_ip.family = "V4"
    /\ result.kind = "Ok"

\* the positions of the address attributes of a netRef that do not decode
BadPositions(attributes) ==
    {j \in DOMAIN attributes :
        /\ attributes[j].local_name \in {"startAddress", "endAddress"}
        /\ ~Decodes(attributes[j].value)}

\* the undecodable address token that comes first in attribute order
FirstBadToken(attributes) ==
    attributes[CHOOSE j \in BadPositions(attributes) :
                  \A k \in BadPositions(attributes) : j <= k].value

\* the error an event raises when it is the one that ends the parse
TriggerKind(e) ==
    CASE IsNetRef(e) /\ BadPositions(e.attributes) # {} -> "IpAddrError"
      [] e.kind = "Error" -> "XmlError"
      [] e.kind = "Characters" /\ e.s # "false" -> "LimitExceeded"
      [] OTHER -> "None"

\* C17: the error a parse returns is the one raised by the last event it
\* read, and no event before it raised one: every earlier netRef decoded, no
\* earlier event of the document is a reader error, and within the netRef
\* that failed the token reported is the first undecodable one.
C17_EarliestTriggerWins ==
    (ParseEnded /\ result.kind = "Err") =>
        /\ result.err.kind = TriggerKind(reader.last)
        /\ result.err.kind = "IpAddrError" =>
              result.err.token = FirstBadToken(reader.last.attributes)
        /\ \A i \in 1..(Len(netrefs) - 1) : BadPositions(netrefs[i]) = {}
        /\ Len(ip_results) = Len(netrefs) - (IF IsNetRef(reader.last) THEN 1 ELSE 0)
        /\ caller = "test" =>
              /\ reader.last = doc[nread]
              /\ \A i \in 1..(nread - 1) :
                    /\ doc[i].kind # "Error"
                    /\ ~(IsNetRef(doc[i]) /\ BadPositions(doc[i].attributes) # {})

\* an undecodable address that precedes a reader error yields IpAddrError
C17_Witness ==
    /\ caller = "test" /\ pc = "test_done"
    /\ result.kind = "Err" /\ result.err.kind = "IpAddrError"
    /\ nread < Len(doc)
    /\ doc[Len(doc)].kind = "Error"

\* within one netRef the first undecodable attribute is the one reported
C17_WitnessAttributeOrder ==
    /\ result.kind = "Err" /\ result.err.kind = "IpAddrError"
    /\ Cardinality(BadTokens(reader.last.attributes)) = 2
    /\ result.err.token = "1.2.3"

\* C18: LimitExceeded is returned only for a text other than "false" read
\* while is_inside_limit is true, inside a limitExceeded element; a parse of
\* a document with no text inside a limitExceeded element, or with no such
\* element, returns Ok with the ranges of its netRefs.
C18_LimitOnlyFromLimitText ==
    /\ (result.kind = "Err" /\ result.err.kind = "LimitExceeded") =>
          /\ reader.last.kind = "Characters" /\ reader.last.s # "false"
          /\ is_inside_limit
          /\ InsideLimitElement(reader)
          /\ "other" \in limit_text
    /\ (ParseEnded /\ CleanStream /\ limit_text = {}) =>
          /\ result.kind = "Ok"
          /\ Len(result.ips) = Len(netrefs)
          /\ \A i \in DOMAIN netrefs : result.ips[i] = RangeOf(netrefs[i])

\* a limitExceeded element with a netRef and no text: Ok with the range
C18_Witness ==
    /\ ParseEnded /\ CleanStream /\ limit_text = {}
    /\ reader.last = EndElement("limitExceeded")
    /\ result.kind = "Ok"
    /\ Len(result.ips) >= 1

\* an event read in this step that the parser does not recognise: a start
\* element other than netRef and limitExceeded, a text read while
\* is_inside_limit is false, or one of the ignored kinds
Unrecognised(e, inside) ==
    \/ e.kind = "StartElement" /\ e.name \notin {"netRef", "limitExceeded"}
    \/ e.kind = "Characters" /\ ~inside
    \/ e.kind \in FeedAlphabet.ignored

\* the attributes of a netRef that parse_content_netref looks at
Recognised(attributes) ==
    SelectSeq(attributes, LAMBDA a : a.local_name \in {"name", "startAddress", "endAddress"})

\* C19: a step that reads an unrecognised event leaves ip_results, the
\* result and the flag as they were and the parse running; a netRef whose
\* recognised attributes are well formed appends exactly their range,
\* whatever other attributes it has.
C19_UnrecognisedEventsFrame ==
    [][(pc = "parse" /\ nread' = nread + 1) =>
          /\ Unrecognised(reader'.last, is_inside_limit) =>
                /\ ip_results' = ip_results
                /\ result' = result
                /\ is_inside_limit' = is_inside_limit
                /\ pc' = "parse"
          /\ (IsNetRef(reader'.last) /\ WellFormedNetRef(Recognised(reader'.last.attributes))) =>
                /\ ip_results' = Append(ip_results, RangeOf(Recognised(reader'.last.attributes)))
                /\ result' = result
                /\ pc' = "parse"]_vars

\* the text "true" read outside limitExceeded with a range accumulated, and
\* a netRef with a handle attribute appended
C19_Witness ==
    /\ pc = "parse"
    /\ reader.last = Characters("true")
    /\ ~is_inside_limit
    /\ Len(ip_results) >= 1
    /\ HasAttr(netrefs[1], "handle")

====
